---------------------------- MODULE Spec2Model ----------------------------
(***************************************************************************)
(* A model of the Airtable records proxy of "RLD - QuickFix/server.py":    *)
(* the parameter validator, the in-memory TTL cache (SimpleCache) and the  *)
(* server-side pagination loop of GET /api/airtable/records, together with *)
(* the limits of config.py.                                                *)
(*                                                                         *)
(* Python strings are TLA+ strings (TLC evaluates Len, \o and SubSeq on    *)
(* them).  An optional value (a query argument that may be missing, a      *)
(* Python None) is a tuple of length at most one: None is << >> and a      *)
(* present value v is <<v>>.                                               *)
(***************************************************************************)
EXTENDS Integers, Sequences, FiniteSets, TLC

VARIABLES
    profile,        \* FLASK_ENV as read by config.get_config at import time
    _cache,         \* SimpleCache._cache: key -> payload
    _timestamps,    \* SimpleCache._timestamps: key -> time of the set
    now,            \* time.time(), in seconds
    ticks,          \* how often the clock has advanced
    pc,             \* where the handler of the current request stands
    request,        \* request.args of the current request
    params,         \* validated_params of the current request, or None
    all_records,    \* get_airtable_records: all_records
    offset,         \* get_airtable_records: offset
    page_count,     \* get_airtable_records: page_count
    page_params,    \* the query of the upstream request in flight
    response,       \* the HTTP response of the current request, or None
    upstreamCalls,  \* requests.get calls issued for the current request
    cacheOps,       \* cache.get / cache.set calls made for the current request
    cacheBefore,    \* the cache as it was when the current request arrived
    lookup,         \* what cache.get saw and returned for the current request
    lastSet,        \* key of a live entry -> the payload its set was given
    log,            \* logger.warning / logger.error lines of the current request
    threads,        \* concurrent requests: where each stands in the cache calls
    written,        \* key -> what the set calls for it wrote and when
    args,           \* inputs of the function under study (pure-function specs)
    result          \* its outputs

handlerVars == <<pc, request, params, all_records, offset, page_count,
                 page_params, response, upstreamCalls, cacheOps, cacheBefore,
                 lookup, log>>
cacheVars == <<_cache, _timestamps, lastSet>>
pureVars == <<args, result>>
threadVars == <<threads, written>>
vars == <<profile, _cache, _timestamps, now, ticks, pc, request, params,
          all_records, offset, page_count, page_params, response,
          upstreamCalls, cacheOps, cacheBefore, lookup, lastSet, log, threads,
          written, args, result>>

----------------------------------------------------------------------------
(* Python values *)

None == << >>
Some(v) == <<v>>
Value(o) == o[1]

\* bool(o) of an optional string: None and "" are both false
Truthy(o) == o # None /\ Value(o) # ""

\* o or ''
OrEmpty(o) == IF Truthy(o) THEN Value(o) ELSE ""

Char(s, i) == SubSeq(s, i, i)

\* s.startswith(p)
StartsWith(s, p) == Len(s) >= Len(p) /\ SubSeq(s, 1, Len(p)) = p

\* p in s
Contains(s, p) ==
    \E i \in 1..(Len(s) - Len(p) + 1) : SubSeq(s, i, i + Len(p) - 1) = p

UpperCase == "ABCDEFGHIJKLMNOPQRSTUVWXYZ"
LowerCase == "abcdefghijklmnopqrstuvwxyz"

LowerChar(c) ==
    IF \E i \in 1..Len(UpperCase) : Char(UpperCase, i) = c
    THEN Char(LowerCase, CHOOSE i \in 1..Len(UpperCase) : Char(UpperCase, i) = c)
    ELSE c

\* s.lower(): every character lowered, the two halves of s in turn
RECURSIVE Lower(_)
Lower(s) ==
    IF Len(s) <= 1 THEN LowerChar(s)
    ELSE LET half == Len(s) \div 2
         IN Lower(SubSeq(s, 1, half)) \o Lower(SubSeq(s, half + 1, Len(s)))

Digits == "0123456789"
IsDigit(c) == \E i \in 1..Len(Digits) : Char(Digits, i) = c
DigitValue(c) == (CHOOSE i \in 1..Len(Digits) : Char(Digits, i) = c) - 1

\* s.strip(), for the blank as the only whitespace
RECURSIVE Strip(_)
Strip(s) ==
    IF s = "" THEN ""
    ELSE IF Char(s, 1) = " " THEN Strip(SubSeq(s, 2, Len(s)))
    ELSE IF Char(s, Len(s)) = " " THEN Strip(SubSeq(s, 1, Len(s) - 1))
    ELSE s

\* the digits of an integer literal: digits, single underscores between them
IsDigitString(s) ==
    /\ s # ""
    /\ \A i \in 1..Len(s) :
          \/ IsDigit(Char(s, i))
          \/ /\ Char(s, i) = "_"
             /\ 1 < i /\ i < Len(s)
             /\ IsDigit(Char(s, i - 1)) /\ IsDigit(Char(s, i + 1))

RECURSIVE DigitsValue(_, _)
DigitsValue(s, acc) ==
    IF s = "" THEN acc
    ELSE IF Char(s, 1) = "_" THEN DigitsValue(SubSeq(s, 2, Len(s)), acc)
    ELSE DigitsValue(SubSeq(s, 2, Len(s)), 10 * acc + DigitValue(Char(s, 1)))

\* int(s): Some(n), or None where Python raises ValueError
int(s) ==
    LET t == Strip(s)
        signed == t # "" /\ Char(t, 1) \in {"+", "-"}
        body == IF signed THEN SubSeq(t, 2, Len(t)) ELSE t
    IN IF ~IsDigitString(body) THEN None
       ELSE IF signed /\ Char(t, 1) = "-" THEN Some(0 - DigitsValue(body, 0))
       ELSE Some(DigitsValue(body, 0))

\* str(n) of an integer
RECURSIVE str(_)
str(n) ==
    IF n < 0 THEN "-" \o str(0 - n)
    ELSE IF n < 10 THEN Char(Digits, n + 1)
    ELSE str(n \div 10) \o Char(Digits, (n % 10) + 1)

\* f"{n:,}" of a non-negative integer
RECURSIVE FormatThousands(_)
FormatThousands(n) ==
    IF n < 1000 THEN str(n)
    ELSE LET r == n % 1000
             pad == IF r < 10 THEN "00" ELSE IF r < 100 THEN "0" ELSE ""
         IN FormatThousands(n \div 1000) \o "," \o pad \o str(r)

\* sep.join(seq)
RECURSIVE Join(_, _)
Join(seq, sep) ==
    IF seq = << >> THEN ""
    ELSE IF Len(seq) = 1 THEN seq[1]
    ELSE seq[1] \o sep \o Join(Tail(seq), sep)

----------------------------------------------------------------------------
(* config.py *)

Profiles == {"development", "testing", "production"}

\* AppConfig.MAX_TOTAL_RECORDS of the class get_config returns
MAX_TOTAL_RECORDS(env) ==
    CASE env = "development" -> 10000
      [] env = "testing" -> 100
      [] OTHER -> 5000

FRESH_TABLES ==
    << [id |-> "tblcdFVUC3zJrbmNf", date_field |-> "Date Created", sort_direction |-> "desc"],
       [id |-> "tblHyyZHUsTdEb3BL", date_field |-> "Created", sort_direction |-> "desc"],
       [id |-> "tbl7mWcQBNA2TQAjc", date_field |-> "Reporting ends", sort_direction |-> "desc"],
       [id |-> "tblIQXVSwtwq1P4W7", date_field |-> "Reporting ends", sort_direction |-> "desc"],
       [id |-> "tblA6ABFBTURfyZx9", date_field |-> "period", sort_direction |-> "desc"],
       [id |-> "tblRBXdh6L6zm9CZn", date_field |-> "Date", sort_direction |-> "desc"] >>

LEGACY_TABLES ==
    << [id |-> "tblv400k6UM7FE0OU", date_field |-> "Date Created", sort_direction |-> "desc"],
       [id |-> "tbloHzN9XdQLc8xvS", date_field |-> "Created", sort_direction |-> "desc"],
       [id |-> "tbldOjx6thhdAgaUB", date_field |-> "Reporting starts", sort_direction |-> "desc"],
       [id |-> "tbl4QdehJluhBSSVh", date_field |-> "Date", sort_direction |-> "desc"] >>

\* Config.get_table_config: the first fresh, else the first legacy table
\* with this id, else None
get_table_config(table_id) ==
    LET tables == FRESH_TABLES \o LEGACY_TABLES
        hits == SelectSeq(tables, LAMBDA t : t.id = table_id)
    IN IF hits = << >> THEN None ELSE Some(hits[1])

----------------------------------------------------------------------------
(* validate_airtable_params *)

dangerous_patterns ==
    << "javascript:", "eval(", "script>", "DROP TABLE", "DELETE FROM" >>

BaseIdErrors(base_id) ==
    IF ~Truthy(base_id) THEN << "baseId is required" >>
    ELSE IF ~StartsWith(Value(base_id), "app") \/ Len(Value(base_id)) # 17
    THEN << "baseId must start with 'app' and be 17 characters long" >>
    ELSE << >>

\* variant: the length of the table id is not looked at
TableIdErrorsAnyLength(table_id) ==
    IF ~Truthy(table_id) THEN << "tableId is required" >>
    ELSE IF ~StartsWith(Value(table_id), "tbl")
    THEN << "tableId must start with 'tbl' and be 17 characters long" >>
    ELSE << >>

TableIdErrors(table_id) ==
    IF ~Truthy(table_id) THEN << "tableId is required" >>
    ELSE IF ~StartsWith(Value(table_id), "tbl") \/ Len(Value(table_id)) # 17
    THEN << "tableId must start with 'tbl' and be 17 characters long" >>
    ELSE << >>

\* the max_records the validator is left with: None, or the parsed integer
\* (also when that integer is out of range)
ParsedMaxRecords(max_records_str) ==
    IF Truthy(max_records_str) THEN int(Value(max_records_str)) ELSE None

\* variant: only negative caps are refused
MaxRecordsNegative(n) == n < 0

MaxRecordsTooSmall(n) == n <= 0

MaxRecordsTooLarge(n, env) == n > MAX_TOTAL_RECORDS(env)

MaxRecordsErrors(max_records_str, env) ==
    IF ~Truthy(max_records_str) THEN << >>
    ELSE LET n == int(Value(max_records_str))
         IN IF n = None THEN << "maxRecords must be a valid integer" >>
            ELSE IF MaxRecordsTooSmall(Value(n))
            THEN << "maxRecords must be a positive integer" >>
            ELSE IF MaxRecordsTooLarge(Value(n), env)
            THEN << "maxRecords cannot exceed "
                    \o FormatThousands(MAX_TOTAL_RECORDS(env))
                    \o " (configured limit)" >>
            ELSE << >>

\* the filter text the patterns are looked up in
FilterHaystack(filter_formula) == Lower(filter_formula)

PatternErrors(filter_formula) ==
    LET filter_lower == FilterHaystack(filter_formula)
        found == SelectSeq(dangerous_patterns,
                           LAMBDA pattern : Contains(filter_lower, pattern))
    IN [i \in 1..Len(found) |->
          "Filter formula contains potentially dangerous pattern: " \o found[i]]

FilterErrors(filter_formula) ==
    IF ~Truthy(filter_formula) THEN << >>
    ELSE PatternErrors(Value(filter_formula))
         \o (IF Len(Value(filter_formula)) > 1000
             THEN << "Filter formula is too long (max 1000 characters)" >>
             ELSE << >>)

\* returns (validated_params, error_message), one of them None
validate_airtable_params(base_id, table_id, max_records_str, filter_formula, env) ==
    LET errors == BaseIdErrors(base_id) \o TableIdErrors(table_id)
                  \o MaxRecordsErrors(max_records_str, env)
                  \o FilterErrors(filter_formula)
    IN IF errors # << >>
       THEN [validated_params |-> None, error_msg |-> Some(Join(errors, "; "))]
       ELSE [validated_params |->
                Some([base_id |-> Value(base_id),
                      table_id |-> Value(table_id),
                      max_records |-> ParsedMaxRecords(max_records_str),
                      filter_formula |-> filter_formula]),
             error_msg |-> None]

----------------------------------------------------------------------------
(* SimpleCache *)

\* str(max_records) inside the f-string: "None" or the decimal digits
MaxRecordsText(max_records) ==
    IF max_records = None THEN "None" ELSE str(Value(max_records))

\* variant: the record cap is left out of the key
KeyDataWithoutMaxRecords(base_id, table_id, filter_formula, max_records) ==
    base_id \o ":" \o table_id \o ":" \o OrEmpty(filter_formula)

\* the string that is hashed
KeyData(base_id, table_id, filter_formula, max_records) ==
    base_id \o ":" \o table_id \o ":" \o OrEmpty(filter_formula)
            \o ":" \o MaxRecordsText(max_records)

\* hashlib.md5(...).hexdigest(), taken as an injective function of its input
md5(data) == << "md5", data >>

_generate_key(base_id, table_id, filter_formula, max_records) ==
    md5(KeyData(base_id, table_id, filter_formula, max_records))


Restrict(f, S) == [x \in DOMAIN f \cap S |-> f[x]]

\* variant: removing one entry sweeps out all of them
RemoveAll(f, k) == << >>

Remove(f, k) == [x \in DOMAIN f \ {k} |-> f[x]]
Put(f, k, v) == [x \in DOMAIN f \cup {k} |-> IF x = k THEN v ELSE f[x]]

\* variant: expired from the instant the age equals the TTL
ExpiredAtTTL(t, cache_time, ttl_seconds) == t - cache_time >= ttl_seconds

\* the expiry test of get
Expired(t, cache_time, ttl_seconds) == t - cache_time > ttl_seconds

\* SimpleCache.get at time t: the value returned and the cache it leaves
get(c, ts, t, base_id, table_id, filter_formula, max_records, ttl_seconds) ==
    LET cache_key == _generate_key(base_id, table_id, filter_formula, max_records)
        cache_time == IF cache_key \in DOMAIN ts THEN ts[cache_key] ELSE 0
    IN IF cache_key \notin DOMAIN c
       THEN [value |-> None, cache |-> c, timestamps |-> ts]
       ELSE IF Expired(t, cache_time, ttl_seconds)
       THEN [value |-> None,
             cache |-> Remove(c, cache_key),
             timestamps |-> Remove(ts, cache_key)]
       ELSE [value |-> Some(c[cache_key]), cache |-> c, timestamps |-> ts]

\* variant: only the record list is kept
StoredRecordsOnly(data) == [records |-> data.records]

\* what set stores under the key
StoredPayload(data) == data

\* variant: set keeps the entry the key already has
set_if_absent(c, ts, t, base_id, table_id, data, filter_formula, max_records) ==
    LET cache_key == _generate_key(base_id, table_id, filter_formula, max_records)
    IN IF cache_key \in DOMAIN c
       THEN [cache |-> c, timestamps |-> ts]
       ELSE [cache |-> Put(c, cache_key, StoredPayload(data)),
             timestamps |-> Put(ts, cache_key, t)]

\* SimpleCache.set at time t: the cache it leaves
set(c, ts, t, base_id, table_id, data, filter_formula, max_records) ==
    LET cache_key == _generate_key(base_id, table_id, filter_formula, max_records)
    IN [cache |-> Put(c, cache_key, StoredPayload(data)),
        timestamps |-> Put(ts, cache_key, t)]

\* SimpleCache.get_stats (the byte size, len(str(data)) summed, is left out)
get_stats(c) ==
    [total_entries |-> Cardinality(DOMAIN c), cache_keys |-> DOMAIN c]

----------------------------------------------------------------------------
(* get_airtable_records *)

max_pages == 100

\* variant: one TTL for every request
cache_ttl_uniform(filter_formula) == 300

\* cache_ttl = 60 if filter_formula else 300
cache_ttl(filter_formula) == IF Truthy(filter_formula) THEN 60 ELSE 300

\* the flattened record: id and createdTime, then **record['fields'], whose
\* keys win
Flatten(record) ==
    record.fields @@ [id |-> record.id, createdTime |-> record.createdTime]

\* all_records after the page's records were appended
Accumulate(records, page_records) ==
    records \o [i \in 1..Len(page_records) |-> Flatten(page_records[i])]

\* the deduplication loop: the records whose id was not seen before, in order
RECURSIVE Dedup(_, _, _)
Dedup(records, seen_ids, unique) ==
    IF records = << >> THEN unique
    ELSE IF Head(records).id \notin seen_ids
    THEN Dedup(Tail(records), seen_ids \cup {Head(records).id},
               Append(unique, Head(records)))
    ELSE Dedup(Tail(records), seen_ids, unique)

\* variant: the ids seen are never remembered
unique_records_unseen(records) == records

unique_records(records) == Dedup(records, {}, << >>)

\* response_data
FinalRecords(records) ==
    LET unique == unique_records(records)
        original_count == Len(records)
    IN IF Len(unique) # original_count THEN unique ELSE records

\* variant: total_records counts the records before the deduplication
ResponseDataOriginalCount(records, pages) ==
    LET original_count == Len(records)
        final == FinalRecords(records)
    IN [records |-> final,
        offset |-> None,
        pagination_info |->
            [total_records |-> original_count,
             pages_fetched |-> pages,
             server_side_pagination |-> TRUE,
             duplicates_removed |-> original_count - Len(final)]]

\* variant: a result cut off at the page ceiling is marked in 'offset'
ResponseDataTruncationMarked(records, pages) ==
    LET original_count == Len(records)
        final == FinalRecords(records)
    IN [records |-> final,
        offset |-> IF pages >= max_pages THEN Some("more") ELSE None,
        pagination_info |->
            [total_records |-> Len(final),
             pages_fetched |-> pages,
             server_side_pagination |-> TRUE,
             duplicates_removed |-> original_count - Len(final)]]

ResponseData(records, pages) ==
    LET original_count == Len(records)
        final == FinalRecords(records)
    IN [records |-> final,
        offset |-> None,
        pagination_info |->
            [total_records |-> Len(final),
             pages_fetched |-> pages,
             server_side_pagination |-> TRUE,
             duplicates_removed |-> original_count - Len(final)]]

\* remaining_records = max_records - len(all_records)
remaining_records(max_records, records) == Value(max_records) - Len(records)

\* variant: always the upstream's page size
MinFirst(a, b) == a

Min(a, b) == IF a <= b THEN a ELSE b

\* variant: the cursor of the previous response is not sent
PageParamsNoCursor(p, off, records) ==
    LET table_config == get_table_config(p.table_id)
    IN [offset |-> None,
        maxRecords |-> IF p.max_records # None
                       THEN Some(Min(100, remaining_records(p.max_records, records)))
                       ELSE None,
        filterByFormula |-> IF Truthy(p.filter_formula)
                            THEN p.filter_formula ELSE None,
        sort_field |-> IF table_config # None
                       THEN Some(Value(table_config).date_field) ELSE None,
        sort_direction |-> IF table_config # None
                           THEN Some(Value(table_config).sort_direction) ELSE None]

\* variant: the first page starts at the client's 'offset'
PageParamsClientOffset(p, off, records) ==
    LET table_config == get_table_config(p.table_id)
    IN [offset |-> IF Truthy(off) THEN off
                   ELSE IF Truthy(request.args.offset) THEN request.args.offset
                   ELSE None,
        maxRecords |-> IF p.max_records # None
                       THEN Some(Min(100, remaining_records(p.max_records, records)))
                       ELSE None,
        filterByFormula |-> IF Truthy(p.filter_formula)
                            THEN p.filter_formula ELSE None,
        sort_field |-> IF table_config # None
                       THEN Some(Value(table_config).date_field) ELSE None,
        sort_direction |-> IF table_config # None
                           THEN Some(Value(table_config).sort_direction) ELSE None]

\* page_params of the next upstream request
PageParams(p, off, records) ==
    LET table_config == get_table_config(p.table_id)
    IN [offset |-> IF Truthy(off) THEN off ELSE None,
        maxRecords |-> IF p.max_records # None
                       THEN Some(Min(100, remaining_records(p.max_records, records)))
                       ELSE None,
        filterByFormula |-> IF Truthy(p.filter_formula)
                            THEN p.filter_formula ELSE None,
        sort_field |-> IF table_config # None
                       THEN Some(Value(table_config).date_field) ELSE None,
        sort_direction |-> IF table_config # None
                           THEN Some(Value(table_config).sort_direction) ELSE None]

\* variant: the loop body runs once
LoopContinuesOnce(pages) == pages < 1

\* variant: while page_count <= max_pages
LoopContinuesInclusive(pages) == pages <= max_pages

\* whether the while condition lets another iteration start
LoopContinues(pages) == pages < max_pages

NoLookup == [done |-> FALSE]

RecordsPath == "/api/airtable/records"
CachePath == "/api/cache"

\* the code after the loop: deduplicate, answer 200 and store the answer
Finalize(records, pages) ==
    \E data \in {ResponseData(records, pages)}, p \in {Value(params)} :
    \E s \in {set(_cache, _timestamps, now, p.base_id, p.table_id, data,
                   p.filter_formula, p.max_records)} :
    \E key \in {_generate_key(p.base_id, p.table_id, p.filter_formula,
                               p.max_records)} :
       /\ response' = Some([status |-> 200, body |-> data])
       /\ _cache' = s.cache
       /\ _timestamps' = s.timestamps
       /\ lastSet' = Put(lastSet, key, data)
       /\ cacheOps' = cacheOps + 1
       /\ pc' = "done"

\* variant: the early return is missing
RejectsNothing(error_msg) == FALSE

\* if error_msg: the handler answers 400 and returns
Rejects(error_msg) == Truthy(error_msg)

\* variant: the 502 carries what was accumulated so far
PageFailureBodyPartial(e, records) ==
    [error |-> "Data service error: " \o e, records |-> records]

\* the body of the 502 a failed page is answered with
PageFailureBody(e, records) == [error |-> "Data service error: " \o e]

\* a line of the server log: logger.<level>(f"<message>{detail}")
LogLine(level, message, detail) ==
    [level |-> level, message |-> message, detail |-> detail]

UnexpectedInRecords == "Unexpected error in /api/airtable/records: "

\* except Exception as e: return jsonify({"error": str(e)}), 500
InternalError(detail) == [status |-> 500, body |-> [error |-> detail]]

\* the handler up to the loop: validation, then the cache lookup
Receive(Requests) ==
    \E a \in Requests :
      /\ pc \in {"idle", "done"}
      /\ request' = [path |-> RecordsPath, method |-> "GET", args |-> a]
      /\ cacheBefore' = [cache |-> _cache, timestamps |-> _timestamps]
      /\ all_records' = << >>
      /\ offset' = None
      /\ page_count' = 0
      /\ page_params' = None
      /\ upstreamCalls' = 0
      /\ UNCHANGED <<profile, now, ticks, pureVars, threadVars>>
      /\ \E v \in {validate_airtable_params(a.baseId, a.tableId, a.maxRecords,
                                             a.filterByFormula, profile)} :
            IF Rejects(v.error_msg)
            THEN /\ params' = None
                 /\ response' = Some([status |-> 400,
                        body |-> [error |-> "Validation error: " \o Value(v.error_msg)]])
                 /\ log' = << LogLine("warning", "Validation error: ",
                                      Value(v.error_msg)) >>
                 /\ pc' = "done"
                 /\ cacheOps' = 0
                 /\ lookup' = NoLookup
                 /\ UNCHANGED <<_cache, _timestamps, lastSet>>
            ELSE IF v.validated_params = None
            THEN \* validated_params['base_id'] on None: TypeError, caught
                 \* by the outer except
                 /\ params' = None
                 /\ response' = Some(InternalError(
                        "'NoneType' object is not subscriptable"))
                 /\ log' = << LogLine("error", UnexpectedInRecords,
                                      "'NoneType' object is not subscriptable") >>
                 /\ pc' = "done"
                 /\ cacheOps' = 0
                 /\ lookup' = NoLookup
                 /\ UNCHANGED <<_cache, _timestamps, lastSet>>
            ELSE \E p \in {Value(v.validated_params)} :
                 \E ttl \in {cache_ttl(p.filter_formula)} :
                 \E key \in {_generate_key(p.base_id, p.table_id,
                                            p.filter_formula, p.max_records)} :
                 \E g \in {get(_cache, _timestamps, now, p.base_id, p.table_id,
                                p.filter_formula, p.max_records, ttl)} :
                    /\ params' = v.validated_params
                    /\ log' = << >>
                    /\ cacheOps' = 1
                    /\ _cache' = g.cache
                    /\ _timestamps' = g.timestamps
                    /\ lastSet' = Restrict(lastSet, DOMAIN g.cache)
                    /\ lookup' = [done |-> TRUE, key |-> key, at |-> now,
                                  ttl |-> ttl,
                                  had |-> key \in DOMAIN _cache,
                                  cache_time |-> IF key \in DOMAIN _timestamps
                                                 THEN _timestamps[key] ELSE 0,
                                  value |-> g.value]
                    /\ IF g.value # None
                       THEN /\ response' = Some([status |-> 200, body |-> Value(g.value)])
                            /\ pc' = "done"
                       ELSE /\ response' = None
                            /\ pc' = "paging"

\* one pass from the while condition to the upstream request (or to the
\* end of the handler when the loop is left)
NextPage ==
    /\ pc = "paging"
    /\ UNCHANGED <<profile, now, ticks, pureVars, threadVars, request, params,
                   all_records, offset, cacheBefore, lookup, log>>
    /\ IF ~LoopContinues(page_count)
       THEN /\ Finalize(all_records, page_count)
            /\ UNCHANGED <<page_count, page_params, upstreamCalls>>
       ELSE IF /\ Value(params).max_records # None
               /\ remaining_records(Value(params).max_records, all_records) <= 0
       THEN /\ page_count' = page_count + 1
            /\ Finalize(all_records, page_count + 1)
            /\ UNCHANGED <<page_params, upstreamCalls>>
       ELSE /\ page_count' = page_count + 1
            /\ page_params' = Some(PageParams(Value(params), offset, all_records))
            /\ upstreamCalls' = upstreamCalls + 1
            /\ pc' = "waiting"
            /\ UNCHANGED <<response, cacheVars, cacheOps>>

\* the upstream answers 200 with a page: records and, maybe, a cursor
UpstreamOK(Pages, Cursors, pageLimit) ==
    \E page_records \in Pages, next \in Cursors :
      /\ pc = "waiting"
      /\ Truthy(next) => page_count < pageLimit
      /\ UNCHANGED <<profile, now, ticks, pureVars, threadVars, request, params,
                     page_count, page_params, upstreamCalls, cacheBefore,
                     lookup, log>>
      /\ all_records' = Accumulate(all_records, page_records)
      /\ offset' = next
      /\ IF Truthy(next)
         THEN /\ pc' = "paging"
              /\ UNCHANGED <<response, cacheVars, cacheOps>>
         ELSE Finalize(Accumulate(all_records, page_records), page_count)

\* str(e) of the RequestException a failed page raises: a timeout, a refused
\* connection, or raise_for_status on a non-success status
RequestExceptions ==
    {"Read timed out.", "Connection refused", "500 Server Error"}

UpstreamError ==
    \E e \in RequestExceptions :
      /\ pc = "waiting"
      /\ response' = Some([status |-> 502, body |-> PageFailureBody(e, all_records)])
      /\ log' = Append(log, LogLine("error",
                    "Airtable API error on page " \o str(page_count) \o ": ", e))
      /\ pc' = "done"
      /\ UNCHANGED <<profile, now, ticks, pureVars, threadVars, request, params,
                     all_records, offset, page_count, page_params, upstreamCalls,
                     cacheBefore, lookup, cacheVars, cacheOps>>

\* the upstream answers 200 with a body the handler cannot read (a record
\* without 'id'): KeyError, caught by the outer except
UpstreamMalformed ==
    /\ pc = "waiting"
    /\ response' = Some(InternalError("'id'"))
    /\ log' = Append(log, LogLine("error", UnexpectedInRecords, "'id'"))
    /\ pc' = "done"
    /\ UNCHANGED <<profile, now, ticks, pureVars, threadVars, request, params,
                   all_records, offset, page_count, page_params, upstreamCalls,
                   cacheBefore, lookup, cacheVars, cacheOps>>

----------------------------------------------------------------------------
(* manage_cache: GET answers the statistics, DELETE clears the cache *)

manage_cache ==
    \E method \in {"GET", "DELETE"} :
      /\ pc \in {"idle", "done"}
      /\ request' = [path |-> CachePath, method |-> method, args |-> << >>]
      /\ pc' = "done"
      /\ IF method = "GET"
         THEN /\ response' = Some([status |-> 200, body |-> get_stats(_cache)])
              /\ UNCHANGED <<_cache, _timestamps, lastSet>>
         ELSE /\ response' = Some([status |-> 200, body |-> [status |-> "success"]])
              /\ _cache' = << >>
              /\ _timestamps' = << >>
              /\ lastSet' = << >>
      \* the locals of the records handler are gone
      /\ params' = None
      /\ all_records' = << >>
      /\ offset' = None
      /\ page_count' = 0
      /\ page_params' = None
      /\ upstreamCalls' = 0
      /\ cacheOps' = 0
      /\ cacheBefore' = [cache |-> _cache, timestamps |-> _timestamps]
      /\ lookup' = NoLookup
      /\ log' = << >>
      /\ UNCHANGED <<profile, now, ticks, pureVars, threadVars>>

----------------------------------------------------------------------------
(* The environment: the clock, the requests and the upstream's answers *)

MaxTicks == 2           \* clock advances per behaviour
MaxUpstreamPages == 2   \* pages the upstream serves to one request (Spec)
MaxPagingPageLen == 2   \* records in one upstream page (SpecPaging)
MaxPagingAccum == 3     \* records accumulated by one request (SpecPaging)

\* the clock advances by the short TTL or by the long TTL
Tick ==
    \E d \in {cache_ttl(Some("x")), cache_ttl(None)} :
      /\ pc \in {"idle", "done", "waiting"}
      /\ ticks < MaxTicks
      /\ ticks' = ticks + 1
      /\ now' = now + d
      /\ UNCHANGED <<profile, handlerVars, cacheVars, pureVars, threadVars>>

GoodBase == "appAAAAAAAAAAAAAA"
OtherBase == "appBBBBBBBBBBBBBB"
GoodTable == "tblcdFVUC3zJrbmNf"
OtherTable == "tblZZZZZZZZZZZZZZ"

Args(base, table, max, filter) ==
    [baseId |-> base, tableId |-> table, maxRecords |-> max,
     filterByFormula |-> filter, sort |-> None, offset |-> None]

\* upstream records: two ids, a second version of the first id, and a record
\* whose fields hold an 'id' of their own
RecA == [id |-> "recA", createdTime |-> "t1", fields |-> [Name |-> "a"]]
RecB == [id |-> "recB", createdTime |-> "t2", fields |-> [Name |-> "b"]]
RecA2 == [id |-> "recA", createdTime |-> "t1", fields |-> [Name |-> "a2"]]
RecC == [id |-> "recC", createdTime |-> "t3", fields |-> [id |-> "recB"]]

SeqsUpTo(S, n) == UNION {[1..k -> S] : k \in 0..n}

\* Spec: a few requests against one cache (without a filter, with a filter
\* and a cap, with an empty filter, with a bad base id)
SpecRequests ==
    { Args(Some(GoodBase), Some(GoodTable), None, None),
      Args(Some(GoodBase), Some(GoodTable), Some("1"), Some("x")),
      Args(Some(GoodBase), Some(GoodTable), None, Some("")),
      Args(Some("app"), Some(GoodTable), Some("0"), None) }
SpecPages == {<< >>, <<RecA, RecB>>}
SpecCursors == {None, Some("c1")}

\* SpecPaging: one request, an upstream that may go on forever
PagingRequests ==
    { Args(Some(GoodBase), Some(GoodTable), None, None),
      Args(Some(GoodBase), Some(GoodTable), Some("1"), None),
      Args(Some(GoodBase), Some(GoodTable), Some("2"), Some("x")),
      Args(Some(GoodBase), Some(OtherTable), Some("101"), None) }
\* the pages the upstream may send while `records` are accumulated
PagingPages(records) ==
    {p \in SeqsUpTo({RecA, RecB, RecA2, RecC}, MaxPagingPageLen) :
        Len(records) + Len(p) <= MaxPagingAccum}
PagingCursors == {None, Some(""), Some("c1"), Some("c2")}

InitHandler ==
    /\ _cache = << >>
    /\ _timestamps = << >>
    /\ lastSet = << >>
    /\ now = 0
    /\ ticks = 0
    /\ pc = "idle"
    /\ request = [path |-> "", method |-> "", args |-> << >>]
    /\ params = None
    /\ all_records = << >>
    /\ offset = None
    /\ page_count = 0
    /\ page_params = None
    /\ response = None
    /\ upstreamCalls = 0
    /\ cacheOps = 0
    /\ cacheBefore = [cache |-> << >>, timestamps |-> << >>]
    /\ lookup = NoLookup
    /\ log = << >>
    /\ threads = << >>
    /\ written = << >>

Init ==
    /\ InitHandler
    /\ profile = "production"
    /\ args = None
    /\ result = None

RecordsRequest == Receive(SpecRequests)
PageResponse == UpstreamOK(SpecPages, SpecCursors, MaxUpstreamPages)

Next ==
    \/ RecordsRequest
    \/ NextPage
    \/ PageResponse
    \/ UpstreamError
    \/ UpstreamMalformed
    \/ manage_cache
    \/ Tick

Spec == Init /\ [][Next]_vars

\* one records request against an upstream that can always supply a cursor
InitPaging ==
    /\ InitHandler
    /\ profile = "production"
    /\ args = None
    /\ result = None

FirstRequest == pc = "idle" /\ Receive(PagingRequests)
EndlessPageResponse ==
    UpstreamOK(PagingPages(all_records), PagingCursors, max_pages + 1)

NextPaging ==
    \/ FirstRequest
    \/ NextPage
    \/ EndlessPageResponse
    \/ UpstreamError
    \/ UpstreamMalformed

SpecPaging == InitPaging /\ [][NextPaging]_vars

----------------------------------------------------------------------------
(* One records request from its arrival to its answer, for the question     *)
(* whether it is always answered.  The request meets a cache that is empty  *)
(* or holds the answer of an earlier request, fresh or expired; the handler *)
(* takes its steps, and every upstream call is answered or fails (the call  *)
(* is made with timeout=AppConfig.AIRTABLE_API_TIMEOUT).                    *)

MaxLiveAccum == 2       \* records accumulated by the request (SpecLive)

LiveRequests ==
    { Args(Some(GoodBase), Some(GoodTable), None, None),
      Args(Some(GoodBase), Some(GoodTable), Some("2"), None),
      Args(Some("app"), Some(GoodTable), Some("0"), None) }

LivePages(records) ==
    {p \in SeqsUpTo({RecA, RecB}, 1) : Len(records) + Len(p) <= MaxLiveAccum}

LiveCursors == {None, Some("c1")}

\* the cache after an earlier request without filter and cap was answered at
\* time 0 with one record
EarlierAnswer ==
    set(<< >>, << >>, 0, GoodBase, GoodTable,
        ResponseData(Accumulate(<< >>, <<RecA>>), 1), None, None)

InitLive ==
    /\ \E c \in {[cache |-> << >>, timestamps |-> << >>], EarlierAnswer} :
          /\ _cache = c.cache
          /\ _timestamps = c.timestamps
          /\ lastSet = c.cache
          /\ cacheBefore = c
    /\ now \in {0, cache_ttl(None), cache_ttl(None) + cache_ttl(Some("x"))}
    /\ ticks = 0
    /\ pc = "idle"
    /\ request = [path |-> "", method |-> "", args |-> << >>]
    /\ params = None
    /\ all_records = << >>
    /\ offset = None
    /\ page_count = 0
    /\ page_params = None
    /\ response = None
    /\ upstreamCalls = 0
    /\ cacheOps = 0
    /\ lookup = NoLookup
    /\ log = << >>
    /\ threads = << >>
    /\ written = << >>
    /\ profile = "production"
    /\ args = None
    /\ result = None

LiveRequest == pc = "idle" /\ Receive(LiveRequests)
LivePageResponse == UpstreamOK(LivePages(all_records), LiveCursors, max_pages + 1)

\* the upstream call in flight returns: a page, an error, or an unreadable body
UpstreamReturns == LivePageResponse \/ UpstreamError \/ UpstreamMalformed

NextLive ==
    \/ LiveRequest
    \/ NextPage
    \/ LivePageResponse
    \/ UpstreamError
    \/ UpstreamMalformed

SpecLive ==
    /\ InitLive /\ [][NextLive]_vars
    /\ WF_vars(NextPage)
    /\ WF_vars(UpstreamReturns)

----------------------------------------------------------------------------
(* validate_airtable_params on its own: the arguments are drawn from the   *)
(* sets below and the function is applied once.                            *)

RECURSIVE Repeat(_, _)
Repeat(s, n) ==
    IF n = 0 THEN ""
    ELSE IF n % 2 = 1 THEN s \o Repeat(s, n - 1)
    ELSE LET half == Repeat(s, n \div 2) IN half \o half

BaseIds ==
    { None, Some(""), Some(GoodBase), Some(OtherBase), Some("app"),
      Some("xppAAAAAAAAAAAAAA"), Some("APPAAAAAAAAAAAAAA"),
      Some(GoodBase \o "A"), Some("appAAAAAAAAAAAAA") }

TableIds ==
    { None, Some(""), Some(GoodTable), Some(OtherTable), Some("tbl"),
      Some("appcdFVUC3zJrbmNf"), Some("TBLcdFVUC3zJrbmNf"),
      Some(GoodTable \o "f"), Some("tblcdFVUC3zJrbmN") }

MaxRecordsStrs ==
    { None } \cup
    { Some(m) : m \in { "", " ", "0", "-5", "-0", "abc", "1", "5", " 7 ", "+3",
                        "007", "1_0", "_1", "1.5", "12a", "99", "100", "101",
                        "4999", "5000", "5001", "9999", "10000", "10001",
                        "-10001" } }

\* every pattern as the code lists it, in lower case and in mixed case
PatternSpellings ==
    { "javascript:", "JAVASCRIPT:", "JavaScript:", "eval(", "EVAL(", "Eval(",
      "script>", "SCRIPT>", "Script>", "DROP TABLE", "drop table",
      "Drop Table", "DELETE FROM", "delete from", "Delete From" }

HarmlessFilters ==
    { "x", "{Status}='Open'", "DROP  TABLE", "evaluate", "droptable",
      "AND({A}=1,{B}='b')" }

FilterFormulas ==
    { None, Some("") }
    \cup { Some(f) : f \in HarmlessFilters }
    \cup { Some(pre \o f \o post) :
             pre \in {"", "{A}='"}, f \in PatternSpellings, post \in {"", "' x"} }
    \cup { Some("eval(1) DROP TABLE t; delete from u"),
           Some("<script>javascript:eval(1)</script>"),
           Some(Repeat("a", 1000)), Some(Repeat("a", 1001)),
           Some("eval(" \o Repeat("a", 996)),
           Some("Script>" \o Repeat("a", 995)) }

ValidateArgs(base, table, max, filter) ==
    [base_id |-> base, table_id |-> table, max_records_str |-> max,
     filter_formula |-> filter]

\* every identifier with a few caps and filters, and the two good
\* identifiers with every cap and every filter
ValidateInputs ==
    { ValidateArgs(b, t, m, f) :
        b \in BaseIds, t \in TableIds,
        m \in {None, Some("0"), Some("5")},
        f \in {None, Some("x"), Some("eval(1)")} }
    \cup
    { ValidateArgs(Some(GoodBase), Some(GoodTable), m, f) :
        m \in MaxRecordsStrs, f \in FilterFormulas }

InitValidate ==
    /\ InitHandler
    /\ profile \in Profiles
    /\ args \in ValidateInputs
    /\ result = None

Validate ==
    /\ result = None
    /\ result' = Some(validate_airtable_params(args.base_id, args.table_id,
                         args.max_records_str, args.filter_formula, profile))
    /\ UNCHANGED <<profile, now, ticks, handlerVars, cacheVars, threadVars, args>>

NextValidate == Validate

SpecValidate == InitValidate /\ [][NextValidate]_vars

----------------------------------------------------------------------------
(* SimpleCache._generate_key on its own: two requests are validated and    *)
(* the key of each is computed as the handler computes it.                 *)

KeyFilters ==
    { None, Some(""), Some("x"), Some("x:1"), Some(":"), Some(":None"),
      Some("None"), Some("1"), Some("x:") }

KeyMaxRecords ==
    { None, Some(""), Some("1"), Some("01"), Some(" 1"), Some("11"),
      Some("100") }

KeyRequests ==
    { Args(Some(b), Some(t), m, f) :
        b \in {GoodBase, OtherBase}, t \in {GoodTable, OtherTable},
        m \in KeyMaxRecords, f \in KeyFilters }

\* the key the handler addresses for request.args a (None when the request
\* is rejected)
KeyOfRequest(a, env) ==
    LET v == validate_airtable_params(a.baseId, a.tableId, a.maxRecords,
                                      a.filterByFormula, env)
        p == Value(v.validated_params)
    IN IF Rejects(v.error_msg) THEN None
       ELSE Some([params |-> p,
                  key |-> _generate_key(p.base_id, p.table_id,
                                        p.filter_formula, p.max_records)])

InitKey ==
    /\ InitHandler
    /\ profile = "production"
    /\ args \in {[a |-> x, b |-> y] : x, y \in KeyRequests}
    /\ result = None

ComputeKeys ==
    /\ result = None
    /\ result' = Some([a |-> KeyOfRequest(args.a, profile),
                       b |-> KeyOfRequest(args.b, profile)])
    /\ UNCHANGED <<profile, now, ticks, handlerVars, cacheVars, threadVars, args>>

NextKey == ComputeKeys

SpecKey == InitKey /\ [][NextKey]_vars

----------------------------------------------------------------------------
(* Concurrent requests against the one module-level cache (the server runs  *)
(* threaded).  A thread handles one request after the other; its steps are   *)
(* the single dictionary operations of SimpleCache.get, SimpleCache.set and  *)
(* SimpleCache.clear, each atomic, which other threads' steps and the clock  *)
(* may come between.  The aggregation between a missed lookup and the set is *)
(* one step that yields the payload, or fails.                               *)

NumThreads == 2         \* requests handled at the same time

Threads == 1..NumThreads

\* the validated parameters of the requests the threads handle
ConcurrentParams ==
    { Value(validate_airtable_params(a.baseId, a.tableId, a.maxRecords,
                                     a.filterByFormula, "production").validated_params) :
        a \in { Args(Some(GoodBase), Some(GoodTable), None, None) } }

\* the payloads an aggregation may end with
ConcurrentPayloads ==
    { ResponseData(<< >>, 1), ResponseData(Accumulate(<< >>, <<RecA>>), 1) }

IdleThread ==
    [pc |-> "idle", p |-> None, cache_time |-> 0, data |-> None, status |-> 0,
     overlapped |-> FALSE]

\* cache_key and ttl_seconds of the call thread i is in
KeyOf(i) ==
    LET p == Value(threads[i].p)
    IN _generate_key(p.base_id, p.table_id, p.filter_formula, p.max_records)
TtlOf(i) == cache_ttl(Value(threads[i].p).filter_formula)

\* the thread has answered with this status and is free for the next request
Answered(i, status) == [IdleThread EXCEPT !.status = status]

\* a KeyError inside the cache call, caught by the handler's outer except
KeyErrorOf(i) == Answered(i, InternalError("KeyError").status)

NoWrites(ttl) == [payloads |-> {}, times |-> {}, done |-> None, ttl |-> ttl]
WritesOf(k, ttl) == IF k \in DOMAIN written THEN written[k] ELSE NoWrites(ttl)

\* get, `if cache_key not in self._cache: return None`
GetLookup(i) ==
    \E p \in ConcurrentParams :
    \E key \in {_generate_key(p.base_id, p.table_id, p.filter_formula,
                               p.max_records)} :
      /\ threads[i].pc = "idle"
      /\ threads' = [threads EXCEPT ![i] =
            [IdleThread EXCEPT !.p = Some(p),
                !.pc = IF key \notin DOMAIN _cache THEN "fetching" ELSE "get_time"]]
      /\ UNCHANGED <<profile, now, ticks, handlerVars, cacheVars, pureVars, written>>

\* get, `cache_time = self._timestamps.get(cache_key, 0)`
GetTime(i) ==
    /\ threads[i].pc = "get_time"
    /\ threads' = [threads EXCEPT ![i].pc = "get_expiry",
                       ![i].cache_time = IF KeyOf(i) \in DOMAIN _timestamps
                                         THEN _timestamps[KeyOf(i)] ELSE 0]
    /\ UNCHANGED <<profile, now, ticks, handlerVars, cacheVars, pureVars, written>>

\* get, `if time.time() - cache_time > ttl_seconds`
GetExpiry(i) ==
    /\ threads[i].pc = "get_expiry"
    /\ threads' = [threads EXCEPT ![i].pc =
                       IF Expired(now, threads[i].cache_time, TtlOf(i))
                       THEN "get_del_cache" ELSE "get_return"]
    /\ UNCHANGED <<profile, now, ticks, handlerVars, cacheVars, pureVars, written>>

\* get, `del self._cache[cache_key]`
GetDelCache(i) ==
    /\ threads[i].pc = "get_del_cache"
    /\ IF KeyOf(i) \in DOMAIN _cache
       THEN /\ _cache' = Remove(_cache, KeyOf(i))
            /\ threads' = [threads EXCEPT ![i].pc = "get_del_ts"]
       ELSE /\ threads' = [threads EXCEPT ![i] = KeyErrorOf(i)]
            /\ UNCHANGED _cache
    /\ UNCHANGED <<profile, now, ticks, handlerVars, _timestamps, lastSet,
                   pureVars, written>>

\* get, `del self._timestamps[cache_key]; return None`
GetDelTimestamp(i) ==
    /\ threads[i].pc = "get_del_ts"
    /\ IF KeyOf(i) \in DOMAIN _timestamps
       THEN /\ _timestamps' = Remove(_timestamps, KeyOf(i))
            /\ threads' = [threads EXCEPT ![i].pc = "fetching"]
       ELSE /\ threads' = [threads EXCEPT ![i] = KeyErrorOf(i)]
            /\ UNCHANGED _timestamps
    /\ UNCHANGED <<profile, now, ticks, handlerVars, _cache, lastSet, pureVars,
                   written>>

\* get, `return self._cache[cache_key]`, and the handler's answer from it
GetReturn(i) ==
    /\ threads[i].pc = "get_return"
    /\ threads' = [threads EXCEPT ![i] =
                       IF KeyOf(i) \in DOMAIN _cache
                       THEN Answered(i, 200) ELSE KeyErrorOf(i)]
    /\ UNCHANGED <<profile, now, ticks, handlerVars, cacheVars, pureVars, written>>

\* the aggregation after a missed lookup: a payload, or a failed page
Fetch(i) ==
    /\ threads[i].pc = "fetching"
    /\ \/ \E data \in ConcurrentPayloads :
             threads' = [threads EXCEPT ![i].pc = "set_cache",
                                        ![i].data = Some(data)]
       \/ threads' = [threads EXCEPT ![i] = Answered(i, 502)]
    /\ UNCHANGED <<profile, now, ticks, handlerVars, cacheVars, pureVars, written>>

\* set, `self._cache[cache_key] = data`
SetCache(i) ==
    /\ threads[i].pc = "set_cache"
    /\ _cache' = Put(_cache, KeyOf(i), StoredPayload(Value(threads[i].data)))
    /\ threads' = [threads EXCEPT ![i].pc = "set_ts"]
    /\ written' = Put(written, KeyOf(i),
                      [WritesOf(KeyOf(i), TtlOf(i)) EXCEPT
                          !.payloads = @ \cup {Value(threads[i].data)}])
    /\ UNCHANGED <<profile, now, ticks, handlerVars, _timestamps, lastSet, pureVars>>

\* set, `self._timestamps[cache_key] = time.time()`: the set has completed
SetTimestamp(i) ==
    /\ threads[i].pc = "set_ts"
    /\ _timestamps' = Put(_timestamps, KeyOf(i), now)
    /\ threads' = [threads EXCEPT ![i] = Answered(i, 200)]
    /\ written' = Put(written, KeyOf(i),
                      [WritesOf(KeyOf(i), TtlOf(i)) EXCEPT
                          !.times = @ \cup {now},
                          !.done = IF threads[i].overlapped THEN @ ELSE Some(now)])
    /\ UNCHANGED <<profile, now, ticks, handlerVars, _cache, lastSet, pureVars>>

\* a step of clear forgets what was written before it, and a set it comes
\* in the middle of does not count as completed
Cleared(i, next) ==
    [j \in Threads |->
        IF j = i THEN (IF next = "idle" THEN Answered(i, 200)
                       ELSE [IdleThread EXCEPT !.pc = next])
        ELSE IF threads[j].pc = "set_ts"
        THEN [threads[j] EXCEPT !.overlapped = TRUE]
        ELSE threads[j]]

\* clear, `self._cache.clear()`
ClearCache(i) ==
    /\ threads[i].pc = "idle"
    /\ _cache' = << >>
    /\ threads' = Cleared(i, "clear_ts")
    /\ written' = << >>
    /\ UNCHANGED <<profile, now, ticks, handlerVars, _timestamps, lastSet, pureVars>>

\* clear, `self._timestamps.clear()`
ClearTimestamps(i) ==
    /\ threads[i].pc = "clear_ts"
    /\ _timestamps' = << >>
    /\ threads' = Cleared(i, "idle")
    /\ written' = << >>
    /\ UNCHANGED <<profile, now, ticks, handlerVars, _cache, lastSet, pureVars>>

InitConcurrent ==
    /\ InitHandler
    /\ profile = "production"
    /\ args = None
    /\ result = None

\* the threads exist from the first step on
StartThreads ==
    /\ threads = << >>
    /\ threads' = [i \in Threads |-> IdleThread]
    /\ UNCHANGED <<profile, now, ticks, handlerVars, cacheVars, pureVars, written>>

\* a cache call takes no time to speak of: the clock advances by the seconds
\* of Tick only while no thread is inside one
TickBetweenCalls ==
    /\ \A i \in DOMAIN threads : threads[i].pc \in {"idle", "fetching"}
    /\ Tick

NextConcurrent ==
    \/ StartThreads
    \/ \E i \in DOMAIN threads :
          \/ GetLookup(i)
          \/ GetTime(i)
          \/ GetExpiry(i)
          \/ GetDelCache(i)
          \/ GetDelTimestamp(i)
          \/ GetReturn(i)
          \/ Fetch(i)
          \/ SetCache(i)
          \/ SetTimestamp(i)
          \/ ClearCache(i)
          \/ ClearTimestamps(i)
    \/ TickBetweenCalls

SpecConcurrent == InitConcurrent /\ [][NextConcurrent]_vars

----------------------------------------------------------------------------
(* Properties *)

IsRecordsRequest == request.path = RecordsPath
Status == IF response = None THEN 0 ELSE Value(response).status
Body == Value(response).body

\* the handler of a records request has answered 200 from a finished
\* aggregation (not from the cache)
FreshSuccess ==
    /\ pc = "done" /\ IsRecordsRequest /\ Status = 200
    /\ lookup.done /\ lookup.value = None

\* the handler of a records request has answered 200 from the cache
CacheHit ==
    /\ pc = "done" /\ IsRecordsRequest
    /\ lookup.done /\ lookup.value # None

\* a page of the aggregation failed and the handler has answered 502
PageFailed == pc = "done" /\ IsRecordsRequest /\ Status = 502

DistinctIds(records) ==
    \A i, j \in 1..Len(records) : i # j => records[i].id # records[j].id

\* C1: a successful, non-cached records response holds no two records with
\* the same id, whatever pages the upstream sent (ids repeated within a page
\* or across pages included).
C1_NoDuplicateIds == FreshSuccess => DistinctIds(Body.records)

\* a fresh answer after at least two pages that repeated an id
C1_Witness ==
    /\ FreshSuccess /\ page_count >= 2
    /\ ~DistinctIds(all_records) /\ Len(Body.records) >= 2

\* C2: with a validated record cap, the aggregation never returns more
\* records than the cap, whatever the upstream does (a page longer than the
\* per-page limit asked for included).
C2_CapRespected ==
    (FreshSuccess /\ Value(params).max_records # None)
        => Len(Body.records) <= Value(Value(params).max_records)

\* C3: one records request issues at most max_pages upstream requests, also
\* when every response carries a cursor; at the ceiling the loop is left and
\* the handler answers.
C3_PageCeiling ==
    /\ [](upstreamCalls <= max_pages)
    /\ [][(pc = "paging" /\ page_count >= max_pages)
            => (pc' = "done" /\ upstreamCalls' = upstreamCalls
                /\ response' # None /\ Value(response').status = 200)]_vars

\* the handler answered after max_pages requests, the last response still
\* carrying a cursor
C3_Witness ==
    /\ FreshSuccess /\ upstreamCalls = max_pages /\ Truthy(offset)

\* the cache as the request's own lookup left it: as before the request,
\* less the entry of its key when the lookup found one (and found it expired)
CacheAfterLookup ==
    IF lookup.done /\ lookup.had
    THEN [cache |-> Remove(cacheBefore.cache, lookup.key),
          timestamps |-> Remove(cacheBefore.timestamps, lookup.key)]
    ELSE cacheBefore

\* C4 as stated: after a failed page the answer is an error without records,
\* no further upstream request was issued, and the cache is exactly as it
\* was before the request.
C4_CacheAsBeforeRequest ==
    PageFailed =>
        /\ DOMAIN Body = {"error"}
        /\ upstreamCalls = page_count
        /\ _cache = cacheBefore.cache
        /\ _timestamps = cacheBefore.timestamps

\* C4, amended: after a failed page the answer is an error without records,
\* every page was requested once and none after the failed one, and nothing
\* was written to the cache: the cache is as the request's own lookup left
\* it (as before the request, less the expired entry of the request's key).
C4_AbortWithoutCacheWrite ==
    PageFailed =>
        /\ DOMAIN Body = {"error"}
        /\ upstreamCalls = page_count
        /\ cacheOps = 1
        /\ _cache = CacheAfterLookup.cache
        /\ _timestamps = CacheAfterLookup.timestamps

\* page 2 or later failed, with records accumulated and after the lookup had
\* purged the expired entry of the key
C4_Witness ==
    /\ PageFailed /\ page_count >= 2 /\ all_records # << >>
    /\ lookup.had /\ lookup.key \notin DOMAIN _cache

\* validate_airtable_params refuses the arguments of the current request
RejectedRequest ==
    /\ IsRecordsRequest
    /\ validate_airtable_params(request.args.baseId, request.args.tableId,
           request.args.maxRecords, request.args.filterByFormula,
           profile).error_msg # None

\* C5: a records request that validation refuses is answered 400 at once:
\* no upstream request, no cache read or write.
C5_RejectedBeforeAnyCall ==
    RejectedRequest =>
        /\ pc = "done" /\ Status = 400
        /\ upstreamCalls = 0 /\ cacheOps = 0 /\ ~lookup.done
        /\ _cache = cacheBefore.cache
        /\ _timestamps = cacheBefore.timestamps

\* a refused request while the cache holds an entry
C5_Witness == RejectedRequest /\ Status = 400 /\ DOMAIN _cache # {}

\* the lookup of the current request found an entry under its key
LookupFound == IsRecordsRequest /\ lookup.done /\ lookup.had

\* the lookup returned the payload of the entry, which is still stored
LookupReturned ==
    /\ lookup.value # None
    /\ lookup.key \in DOMAIN lastSet
    /\ Value(lookup.value) = lastSet[lookup.key]
    /\ lookup.key \in DOMAIN _cache

\* the lookup returned None and, when it has just run, the entry is gone
LookupPurged ==
    /\ lookup.value = None
    /\ pc = "paging" => /\ lookup.key \notin DOMAIN _cache
                        /\ lookup.key \notin DOMAIN _timestamps

C7_HitReturnsStoredPayload ==
    CacheHit =>
        /\ lookup.key \in DOMAIN lastSet
        /\ response = Some([status |-> 200, body |-> lastSet[lookup.key]])
        /\ upstreamCalls = 0

\* a hit some time after the set, with a second entry in the cache
C7_Witness ==
    /\ CacheHit /\ lookup.at > lookup.cache_time
    /\ Cardinality(DOMAIN _cache) >= 2

\* (base id, table id, filter or empty, cap or none) of validated parameters
KeyTuple(p) ==
    <<p.base_id, p.table_id, OrEmpty(p.filter_formula), p.max_records>>

KeysComputed ==
    result # None /\ Value(result).a # None /\ Value(result).b # None

\* C8: two validated requests address the same cache entry exactly when
\* their (base id, table id, filter or empty, cap or none) are equal.
C8_KeyDeterminedByTuple ==
    KeysComputed =>
        LET a == Value(Value(result).a)
            b == Value(Value(result).b)
        IN (a.key = b.key) <=> (KeyTuple(a.params) = KeyTuple(b.params))

\* two requests with different arguments and the same key
C8_Witness ==
    /\ KeysComputed /\ args.a # args.b
    /\ Value(Value(result).a).key = Value(Value(result).b).key

\* the filter holds one of the disallowed substrings, in whatever case
HoldsDisallowed(filter_formula) ==
    \E i \in 1..Len(dangerous_patterns) :
        Contains(Lower(filter_formula), Lower(dangerous_patterns[i]))

\* C9: a filter that holds a disallowed substring in any letter case is
\* refused: an error and no normalized parameters.
C9_DisallowedFilterRejected ==
    (/\ result # None
     /\ Truthy(args.filter_formula)
     /\ HoldsDisallowed(Value(args.filter_formula)))
        => /\ Value(result).validated_params = None
           /\ Value(result).error_msg # None

\* no message about the record cap among the errors
CapAccepted ==
    \/ Value(result).error_msg = None
    \/ ~Contains(Value(Value(result).error_msg), "maxRecords")

\* the string parses as an integer n with 1 <= n <= MAX_TOTAL_RECORDS
CapInRange(m) ==
    /\ int(m) # None
    /\ 1 <= Value(int(m))
    /\ Value(int(m)) <= MAX_TOTAL_RECORDS(profile)

\* the normalized cap, when parameters were returned
NormalizedCapIs(c) ==
    Value(result).validated_params # None
        => Value(Value(result).validated_params).max_records = c

\* C10 as stated: a present cap string is accepted exactly when it parses as
\* an integer within 1..MAX_TOTAL_RECORDS; an absent cap is accepted and
\* normalized to 'no cap'.
C10_PresentCapInRange ==
    result # None =>
        IF args.max_records_str = None
        THEN CapAccepted /\ NormalizedCapIs(None)
        ELSE CapAccepted <=> CapInRange(Value(args.max_records_str))

\* C10, amended: a present, non-empty cap string is accepted exactly when it
\* parses as an integer within 1..MAX_TOTAL_RECORDS, and is normalized to
\* that integer; an absent or empty cap is accepted and normalized to
\* 'no cap'.
C10_NonEmptyCapInRange ==
    result # None =>
        IF ~Truthy(args.max_records_str)
        THEN CapAccepted /\ NormalizedCapIs(None)
        ELSE /\ CapAccepted <=> CapInRange(Value(args.max_records_str))
             /\ CapAccepted => NormalizedCapIs(int(Value(args.max_records_str)))

\* the cap at the ceiling of the production profile, accepted
C10_Witness ==
    /\ result # None /\ profile = "production"
    /\ args.max_records_str = Some("5000")
    /\ Value(result).validated_params # None
    /\ Value(Value(result).validated_params).max_records = Some(5000)

\* the identifier is present, starts with the prefix and has 17 characters
WellFormedId(id, prefix) ==
    id # None /\ StartsWith(Value(id), prefix) /\ Len(Value(id)) = 17

\* no message that names the argument among the errors
ArgumentAccepted(name) ==
    \/ Value(result).error_msg = None
    \/ ~Contains(Value(Value(result).error_msg), name)

\* C11: the base id is accepted exactly when it is present, starts with
\* 'app' and has 17 characters; the table id exactly when it is present,
\* starts with 'tbl' and has 17 characters; any other value of either yields
\* an error and no normalized parameters.
C11_IdentifierShape ==
    result # None =>
        /\ ArgumentAccepted("baseId") <=> WellFormedId(args.base_id, "app")
        /\ ArgumentAccepted("tableId") <=> WellFormedId(args.table_id, "tbl")
        /\ (~WellFormedId(args.base_id, "app") \/ ~WellFormedId(args.table_id, "tbl"))
              => /\ Value(result).validated_params = None
                 /\ Truthy(Value(result).error_msg)

\* a good base id with a table id of 18 characters: only the table id is
\* refused
C11_Witness ==
    /\ result # None
    /\ args.base_id = Some(GoodBase) /\ args.table_id = Some(GoodTable \o "f")
    /\ args.max_records_str = None /\ args.filter_formula = None
    /\ Value(result).error_msg =
          Some("tableId must start with 'tbl' and be 17 characters long")

\* how often p occurs in s
CountOf(s, p) ==
    Cardinality({i \in 1..(Len(s) - Len(p) + 1) : SubSeq(s, i, i + Len(p) - 1) = p})

\* the rules of the validator and whether the arguments violate them: the
\* two identifiers, the cap, the filter length and one rule for every
\* disallowed substring (in whatever letter case)
BaseIdViolated == ~WellFormedId(args.base_id, "app")
TableIdViolated == ~WellFormedId(args.table_id, "tbl")
CapViolated ==
    Truthy(args.max_records_str) /\ ~CapInRange(Value(args.max_records_str))
FilterLengthViolated ==
    Truthy(args.filter_formula) /\ Len(Value(args.filter_formula)) > 1000
PatternViolated(i) ==
    /\ Truthy(args.filter_formula)
    /\ Contains(Lower(Value(args.filter_formula)), Lower(dangerous_patterns[i]))

ViolatedRuleCount ==
    (IF BaseIdViolated THEN 1 ELSE 0) + (IF TableIdViolated THEN 1 ELSE 0)
    + (IF CapViolated THEN 1 ELSE 0) + (IF FilterLengthViolated THEN 1 ELSE 0)
    + Cardinality({i \in 1..Len(dangerous_patterns) : PatternViolated(i)})

\* C12: the error text holds one message for every violated rule, the
\* messages joined with "; ", and parameters are returned only when no rule
\* is violated.
C12_AllViolationsReported ==
    result # None =>
        LET msg == OrEmpty(Value(result).error_msg)
        IN /\ BaseIdViolated => Contains(msg, "baseId")
           /\ TableIdViolated => Contains(msg, "tableId")
           /\ CapViolated => Contains(msg, "maxRecords")
           /\ FilterLengthViolated => Contains(msg, "too long")
           /\ \A i \in 1..Len(dangerous_patterns) :
                 PatternViolated(i)
                    => Contains(Lower(msg), Lower(dangerous_patterns[i]))
           /\ Value(result).error_msg # None
                 => CountOf(msg, "; ") + 1 = ViolatedRuleCount
           /\ Value(result).validated_params # None => ViolatedRuleCount = 0

\* C13: in a successful, non-cached records response pages_fetched is the
\* number of upstream page requests that were issued and answered.
C13_PagesFetchedIsCalls ==
    FreshSuccess => Body.pagination_info.pages_fetched = upstreamCalls

\* the positions of the records whose id occurs at no earlier position
FirstOccurrences(records) ==
    {i \in 1..Len(records) : \A j \in 1..(i - 1) : records[j].id # records[i].id}

\* the records at those positions, in the order of the list
KeepFirst(records) ==
    LET first == FirstOccurrences(records)
        nth(k) == CHOOSE i \in first : Cardinality({j \in first : j <= i}) = k
    IN [k \in 1..Cardinality(first) |-> records[nth(k)]]

\* C14: the returned list is the accumulated list without the later
\* occurrences of an id already seen, in first-seen order; total_records is
\* its length and duplicates_removed is the accumulated count less
\* total_records.
C14_DedupFirstSeen ==
    FreshSuccess =>
        /\ Body.records = KeepFirst(all_records)
        /\ Body.pagination_info.total_records = Len(Body.records)
        /\ Body.pagination_info.duplicates_removed
              = Len(all_records) - Body.pagination_info.total_records

\* three records accumulated, the third repeating the id of the first
C14_Witness ==
    /\ FreshSuccess /\ Len(all_records) = 3
    /\ all_records[1].id = all_records[3].id
    /\ all_records[1].id # all_records[2].id
    /\ Body.pagination_info.duplicates_removed = 1

\* the age of the entry the lookup of the current request found
LookupAge == lookup.at - lookup.cache_time

\* C15: the handler looks the cache up with a TTL of 60 seconds when the
\* request carries a (non-empty) filter and of 300 seconds when it carries
\* none; an entry older than 60 and not older than 300 seconds is therefore
\* no longer served to a filtered request and still served to an unfiltered
\* one.
C15_FilteredExpiresEarlier ==
    (IsRecordsRequest /\ lookup.done) =>
        /\ lookup.ttl = IF Truthy(request.args.filterByFormula) THEN 60 ELSE 300
        /\ (lookup.had /\ 60 < LookupAge /\ LookupAge <= 300)
              => (lookup.value = None <=> Truthy(request.args.filterByFormula))

\* a filtered request finds its entry 300 seconds old and is not served it
C15_Witness ==
    /\ LookupFound /\ Truthy(request.args.filterByFormula)
    /\ LookupAge = 300 /\ lookup.value = None

\* the handler has answered 500 from its outer except clause
InternalFailure == pc = "done" /\ Status = 500

\* C17: a 500 response does not hold the detail text of the exception it
\* reports; the detail is in the server log only.
C17_GenericInternalError ==
    InternalFailure =>
        /\ \E i \in 1..Len(log) : log[i].level = "error"
        /\ \A i \in 1..Len(log) :
              log[i].level = "error" => ~Contains(Body.error, log[i].detail)

\* a set for key k has completed, no clear came after it or in its middle,
\* and the entry it wrote has not reached the end of its TTL
SetCompleted(k) ==
    /\ k \in DOMAIN written
    /\ written[k].done # None
    /\ now - Value(written[k].done) <= written[k].ttl

\* C16: under concurrent use no update is lost: a key whose set has
\* completed, and has not since expired or been cleared, is present with the
\* payload of one of the sets for that key and a timestamp written by a set.
C16_NoLostUpdate ==
    \A k \in DOMAIN written :
        SetCompleted(k) =>
            /\ k \in DOMAIN _cache
            /\ _cache[k] \in written[k].payloads
            /\ k \in DOMAIN _timestamps
            /\ _timestamps[k] \in written[k].times

\* an upstream page request of the current records request is in flight
PageRequested == pc = "waiting" /\ IsRecordsRequest

\* C18: with a cap c every page request carries the per-page limit
\* min(100, c - accumulated), which is at least 1, and none is issued once
\* the accumulated count has reached c; without a cap no page request
\* carries a per-page limit.
C18_PerPageLimit ==
    PageRequested =>
        LET cap == Value(params).max_records
            limit == Value(page_params).maxRecords
            remaining == Value(cap) - Len(all_records)
        IN IF cap = None THEN limit = None
           ELSE /\ limit # None
                /\ Value(limit) >= 1
                /\ Len(all_records) < Value(cap)
                /\ \/ remaining <= 100 /\ Value(limit) = remaining
                   \/ remaining > 100 /\ Value(limit) = 100

\* the third page request of a request with the cap 101, two records
\* accumulated: the first two asked for 100, this one asks for 99
C18_Witness ==
    /\ PageRequested /\ upstreamCalls = 3
    /\ Value(params).max_records = Some(101)
    /\ Len(all_records) = 2
    /\ Value(page_params).maxRecords = Some(99)

\* a step that issues an upstream page request
IssuesRequest == upstreamCalls' > upstreamCalls

\* a step in which the page in flight is answered and read
PageAnswered ==
    /\ pc = "waiting" /\ pc' # "waiting"
    /\ response' = None \/ Value(response').status = 200

\* the ceiling and the cap let another request be issued
MayRequestMore ==
    /\ page_count < max_pages
    /\ \/ Value(params).max_records = None
       \/ Len(all_records) < Value(Value(params).max_records)

\* C19: the page requests of one aggregation are sequential and threaded by
\* the cursor.  The first carries no cursor; a request is issued only while
\* none is in flight, one at a time, and every later one carries the cursor
\* (the non-empty offset) of the response before it; after a response the
\* loop goes on exactly when the response holds a cursor, whatever the number
\* of its records, and then issues the next request unless the ceiling or
\* the cap forbids it.
C19_CursorThreaded ==
    /\ [](PageRequested /\ upstreamCalls = 1 => Value(page_params).offset = None)
    /\ [][IssuesRequest =>
            /\ pc = "paging" /\ pc' = "waiting"
            /\ upstreamCalls' = upstreamCalls + 1
            /\ upstreamCalls > 0 =>
                  /\ Truthy(offset)
                  /\ Value(page_params').offset = offset]_vars
    /\ [][PageAnswered => (pc' = "paging" <=> Truthy(offset'))]_vars
    /\ [][pc = "paging" => (pc' = "waiting" <=> MayRequestMore)]_vars

\* the second request, after a first page of no records and the cursor c2
C19_Witness ==
    /\ PageRequested /\ upstreamCalls = 2
    /\ all_records = << >>
    /\ Value(page_params).offset = Some("c2")

\* the handler is at work on a records request that is not answered yet
RequestPending == pc \in {"paging", "waiting"}

\* the loop was left for the reason the code gives: no cursor, the ceiling,
\* or the cap
LoopEnded ==
    \/ ~Truthy(offset)
    \/ page_count >= max_pages
    \/ /\ Value(params).max_records # None
       /\ Len(all_records) >= Value(Value(params).max_records)

\* C20: every records request is answered, once, with 400, 200, 502 or 500,
\* when every upstream call returns or fails: nothing is answered while the
\* handler is at work, a request at work is answered in the end, an answer
\* given stays, and a fresh 200 comes from a loop that ended on a missing
\* cursor, at the page ceiling or at the cap.
C20_EveryRequestAnswered ==
    /\ [](RequestPending => response = None)
    /\ [](pc = "done" => Status \in {400, 200, 502, 500})
    /\ RequestPending ~> (pc = "done")
    /\ [][pc = "done" => response' = response]_vars
    /\ [](FreshSuccess => LoopEnded)

\* a request with the cap 2 answered after two pages of one record, the
\* second response still holding a cursor
C20_Witness ==
    /\ FreshSuccess /\ upstreamCalls = 2
    /\ Value(params).max_records = Some(2)
    /\ Len(all_records) = 2 /\ Truthy(offset)
----------------------------------------------------------------------------
(* SimpleCache on its own, one call after the other, as the handlers call   *)
(* it: get with the TTL of the request's filter, set with a finished        *)
(* payload, clear and get_stats, while the clock advances between calls.    *)

\* the validated parameters the calls are made with: one key of the long
\* TTL and one of the short TTL
CacheParams ==
    { Value(validate_airtable_params(a.baseId, a.tableId, a.maxRecords,
                                     a.filterByFormula, "production").validated_params) :
        a \in { Args(Some(GoodBase), Some(GoodTable), None, None),
                Args(Some(GoodBase), Some(GoodTable), Some("1"), Some("x")) } }

CachePayloads == ConcurrentPayloads

KeyOfParams(p) ==
    _generate_key(p.base_id, p.table_id, p.filter_formula, p.max_records)

\* the call that was made last and what it returned
Call(op, p, data) == Some([op |-> op, p |-> p, data |-> data, at |-> now])
Returned(value) == Some([value |-> value])

\* cached_data = cache.get(base_id, table_id, filter_formula, max_records,
\*                         cache_ttl)
CacheGet ==
    \E p \in CacheParams :
    \E g \in {get(_cache, _timestamps, now, p.base_id, p.table_id,
                   p.filter_formula, p.max_records, cache_ttl(p.filter_formula))} :
      /\ _cache' = g.cache
      /\ _timestamps' = g.timestamps
      /\ lastSet' = Restrict(lastSet, DOMAIN g.cache)
      /\ args' = Call("get", Some(p), None)
      /\ result' = Returned(g.value)
      /\ UNCHANGED <<profile, now, ticks, handlerVars, threadVars>>

\* cache.set(base_id, table_id, response_data, filter_formula, max_records)
CacheSet ==
    \E p \in CacheParams, data \in CachePayloads :
    \E s \in {set(_cache, _timestamps, now, p.base_id, p.table_id, data,
                   p.filter_formula, p.max_records)} :
      /\ _cache' = s.cache
      /\ _timestamps' = s.timestamps
      /\ lastSet' = Put(lastSet, KeyOfParams(p), data)
      /\ written' = Put(written, KeyOfParams(p),
                        [WritesOf(KeyOfParams(p), cache_ttl(p.filter_formula))
                            EXCEPT !.payloads = @ \cup {data},
                                   !.times = @ \cup {now},
                                   !.done = Some(now)])
      /\ args' = Call("set", Some(p), Some(data))
      /\ result' = Returned(None)
      /\ UNCHANGED <<profile, now, ticks, handlerVars, threads>>

\* cache.clear()
CacheClear ==
    /\ _cache' = << >>
    /\ _timestamps' = << >>
    /\ lastSet' = << >>
    /\ written' = << >>
    /\ args' = Call("clear", None, None)
    /\ result' = Returned(None)
    /\ UNCHANGED <<profile, now, ticks, handlerVars, threads>>

\* stats = cache.get_stats()
CacheStats ==
    /\ args' = Call("get_stats", None, None)
    /\ result' = Returned(Some(get_stats(_cache)))
    /\ UNCHANGED <<profile, now, ticks, handlerVars, cacheVars, threadVars>>

InitCache ==
    /\ InitHandler
    /\ profile = "production"
    /\ args = None
    /\ result = None

NextCache ==
    \/ CacheGet
    \/ CacheSet
    \/ CacheClear
    \/ CacheStats
    \/ Tick

SpecCache == InitCache /\ [][NextCache]_vars

\* the call of the step: a call was made and it is this operation
Calls(op) == args' # args /\ Value(args').op = op
CalledKey == KeyOfParams(Value(Value(args').p))
CalledTtl == cache_ttl(Value(Value(args').p).filter_formula)

\* the entry of key k is past its TTL at the time of the step
PastTTL(k, ttl) ==
    now - (IF k \in DOMAIN _timestamps THEN _timestamps[k] ELSE 0) > ttl

\* f without the entry of k, every other entry as it is
Without(f, k) == [x \in DOMAIN f \ {k} |-> f[x]]

\* C21: entries are removed only lazily.  A get that finds no entry or an
\* entry within its TTL leaves payloads and timestamps unchanged; a get that
\* finds an expired entry removes that entry and no other; and no entry
\* disappears in any other step than such a get or a clear (none when the
\* clock advances, none on set or get_stats).
C21_LazyRemovalOnly ==
    [][ /\ Calls("get") =>
            IF CalledKey \in DOMAIN _cache /\ PastTTL(CalledKey, CalledTtl)
            THEN /\ _cache' = Without(_cache, CalledKey)
                 /\ _timestamps' = Without(_timestamps, CalledKey)
            ELSE /\ _cache' = _cache
                 /\ _timestamps' = _timestamps
        /\ (\/ DOMAIN _cache \ DOMAIN _cache' # {}
            \/ DOMAIN _timestamps \ DOMAIN _timestamps' # {})
              => \/ Calls("clear")
                 \/ /\ Calls("get")
                    /\ CalledKey \in DOMAIN _cache
                    /\ PastTTL(CalledKey, CalledTtl)
                    /\ DOMAIN _cache \ DOMAIN _cache' = {CalledKey}
                    /\ DOMAIN _timestamps \ DOMAIN _timestamps' = {CalledKey}
      ]_vars

\* a get has just found its entry expired and removed it, and the entry of
\* the other key, expired as well, is still there
C21_Witness ==
    /\ args # None /\ Value(args).op = "get"
    /\ Value(result).value = None
    /\ KeyOfParams(Value(Value(args).p)) \in DOMAIN written
    /\ KeyOfParams(Value(Value(args).p)) \notin DOMAIN _cache
    /\ \E k \in DOMAIN _cache :
          /\ k \in DOMAIN _timestamps
          /\ Value(args).at - _timestamps[k] > cache_ttl(None)

\* the last call was this operation
Called(op) == args # None /\ Value(args).op = op
KeyCalled == KeyOfParams(Value(Value(args).p))

\* the time of the last set for key k (no clear since)
SetAt(k) == Value(written[k].done)

\* C22: set always overwrites.  After set(params, p) at time T, whatever
\* entry the key had, the key holds p with timestamp T and the entries of
\* every other key are as they were; a later get for the same params before
\* T+ttl returns p, and one later than T+ttl returns absent (the age counts
\* from T, not from an earlier set).  After clear, and until the next set, every
\* get returns absent and get_stats reports zero entries.
C22_SetOverwrites ==
    /\ [][Calls("set") =>
            /\ CalledKey \in DOMAIN _cache'
            /\ _cache'[CalledKey] = Value(Value(args').data)
            /\ CalledKey \in DOMAIN _timestamps'
            /\ _timestamps'[CalledKey] = now
            /\ Without(_cache', CalledKey) = Without(_cache, CalledKey)
            /\ Without(_timestamps', CalledKey) = Without(_timestamps, CalledKey)
        ]_vars
    /\ [](Called("get") =>
            IF KeyCalled \in DOMAIN written
            THEN /\ Value(args).at < SetAt(KeyCalled) + written[KeyCalled].ttl
                    => /\ KeyCalled \in DOMAIN lastSet
                       /\ Value(result).value = Some(lastSet[KeyCalled])
                 /\ Value(args).at > SetAt(KeyCalled) + written[KeyCalled].ttl
                    => Value(result).value = None
            ELSE Value(result).value = None)
    /\ [](Called("get_stats") /\ written = << >>
            => Value(Value(result).value) =
                  [total_entries |-> 0, cache_keys |-> {}])

\* a get returned the payload of a set that replaced an entry already past
\* its TTL with another payload (the key of the short TTL, first set at 0,
\* set again after 300 seconds)
C22_Witness ==
    /\ Called("get")
    /\ Value(result).value # None
    /\ written[KeyCalled].ttl = cache_ttl(Some("x"))
    /\ 0 \in written[KeyCalled].times
    /\ SetAt(KeyCalled) = cache_ttl(None)
    /\ Cardinality(written[KeyCalled].payloads) = 2
    /\ Cardinality(DOMAIN _cache) = 2

\* C23: no interleaving of concurrent cache operations on one key makes a
\* cache operation fail: no request ends with the missing-key failure
\* (KeyError) that the handler turns into a 500.
C23_NoMissingKeyFailure ==
    \A i \in DOMAIN threads :
        threads[i].status # InternalError("KeyError").status

----------------------------------------------------------------------------
(* Requests without a cap against an upstream that has more pages than the  *)
(* handler will fetch: every response carries a cursor, so every            *)
(* aggregation ends at the page ceiling.  Requests follow one another and   *)
(* the clock advances, so a later request meets the entry of an earlier one.*)

MaxCeilingAccum == 1    \* records accumulated by one request (SpecCeiling)

CeilingRequests ==
    { Args(Some(GoodBase), Some(GoodTable), None, None),
      Args(Some(GoodBase), Some(GoodTable), None, Some("x")) }

CeilingPages(records) ==
    {p \in SeqsUpTo({RecA}, 1) : Len(records) + Len(p) <= MaxCeilingAccum}

CeilingCursors == {Some("c1")}

InitCeiling ==
    /\ InitHandler
    /\ profile = "production"
    /\ args = None
    /\ result = None

CeilingRequest == Receive(CeilingRequests)
CeilingPageResponse ==
    UpstreamOK(CeilingPages(all_records), CeilingCursors, max_pages + 1)

NextCeiling ==
    \/ CeilingRequest
    \/ NextPage
    \/ CeilingPageResponse
    \/ Tick

SpecCeiling == InitCeiling /\ [][NextCeiling]_vars

\* the loop has reached the page ceiling with a cursor in hand and no cap met
AtCeilingWithCursor ==
    /\ pc = "paging" /\ IsRecordsRequest
    /\ page_count >= max_pages
    /\ Truthy(offset)
    /\ \/ Value(params).max_records = None
       \/ Len(all_records) < Value(Value(params).max_records)

\* the envelope of a complete dataset of these records, fetched in so many
\* pages
CompleteEnvelope(records, pages) ==
    [records |-> KeepFirst(records),
     offset |-> None,
     pagination_info |->
        [total_records |-> Len(KeepFirst(records)),
         pages_fetched |-> pages,
         server_side_pagination |-> TRUE,
         duplicates_removed |-> Len(records) - Len(KeepFirst(records))]]

\* C24: when the loop stops at the page ceiling while the last response
\* still supplied a cursor and no cap was met, the handler answers 200 with
\* the envelope a complete dataset would get ('offset' null, no other mark),
\* stores it in the cache, and later requests are served it as a hit as
\* long as its age is within the TTL.
C24_TruncatedServedAsComplete ==
    /\ [][AtCeilingWithCursor =>
            /\ pc' = "done"
            /\ response' = Some([status |-> 200,
                   body |-> CompleteEnvelope(all_records, max_pages)])
            /\ lookup.key \in DOMAIN _cache'
            /\ _cache'[lookup.key] = CompleteEnvelope(all_records, max_pages)
            /\ _timestamps'[lookup.key] = now
        ]_vars
    /\ []((LookupFound /\ LookupAge <= lookup.ttl) =>
            /\ pc = "done"
            /\ lookup.key \in DOMAIN lastSet
            /\ response = Some([status |-> 200, body |-> lastSet[lookup.key]])
            /\ Body.offset = None
            /\ Body.pagination_info.pages_fetched = max_pages
            /\ upstreamCalls = 0)

\* a request is served from the cache, at the last instant of the TTL, the
\* records of an aggregation that was cut off at the page ceiling
C24_Witness ==
    /\ CacheHit /\ LookupAge = lookup.ttl
    /\ Body.pagination_info.pages_fetched = max_pages
    /\ Body.records # << >>

\* the validated parameters of the requests of Spec that validation accepts
AcceptedParams ==
    { Value(v.validated_params) :
        v \in { w \in { validate_airtable_params(a.baseId, a.tableId,
                            a.maxRecords, a.filterByFormula, profile) :
                        a \in SpecRequests } : w.error_msg = None } }

\* the payload is a success envelope of a finished aggregation
SuccessEnvelope(d) ==
    /\ DOMAIN d = {"records", "offset", "pagination_info"}
    /\ DistinctIds(d.records)
    /\ d.pagination_info.total_records = Len(d.records)
    /\ d.offset = None

\* C25: every payload held in the cache is a complete success envelope (ids
\* pairwise distinct, total_records the length of the list, 'offset' null)
\* and, under a key with a cap, holds no more records than the cap.
C25_CachedPayloadsComplete ==
    /\ \A k \in DOMAIN _cache : SuccessEnvelope(_cache[k])
    /\ \A p \in AcceptedParams :
          (KeyOfParams(p) \in DOMAIN _cache /\ p.max_records # None)
             => Len(_cache[KeyOfParams(p)].records) <= Value(p.max_records)

----------------------------------------------------------------------------
(* One records request that may carry the query parameters 'sort' and       *)
(* 'offset', against a cache that is empty or holds the answer of an        *)
(* earlier request without them.                                            *)

\* the `params` dict the handler builds from the query string before the
\* loop: it is logged, and the loop reads its 'filterByFormula' only
InitialParams(a, max_records) ==
    [maxRecords |-> max_records,
     filterByFormula |-> IF Truthy(a.filterByFormula) THEN a.filterByFormula ELSE None,
     sort |-> IF Truthy(a.sort) THEN a.sort ELSE None,
     offset |-> IF Truthy(a.offset) THEN a.offset ELSE None]

SortValues == {None, Some(""), Some("Name")}
OffsetValues == {None, Some("itrClient/recClient")}

SortRequests ==
    { [a EXCEPT !.sort = s, !.offset = o] :
        a \in { Args(Some(GoodBase), Some(GoodTable), None, None),
                Args(Some(GoodBase), Some(GoodTable), Some("2"), Some("x")),
                Args(Some(GoodBase), Some(OtherTable), None, None) },
        s \in SortValues, o \in OffsetValues }

InitSort == InitLive

SortRequest == pc = "idle" /\ Receive(SortRequests)
SortPageResponse ==
    UpstreamOK(LivePages(all_records), LiveCursors, MaxUpstreamPages)

NextSort ==
    \/ SortRequest
    \/ NextPage
    \/ SortPageResponse
    \/ UpstreamError

SpecSort == InitSort /\ [][NextSort]_vars

\* the sort directive of the table: its date field and direction from the
\* table configuration, none for a table without configuration
TableSort(table_id) ==
    IF get_table_config(table_id) = None THEN <<None, None>>
    ELSE <<Some(Value(get_table_config(table_id)).date_field),
           Some(Value(get_table_config(table_id)).sort_direction)>>

\* the request carries a 'sort' and an 'offset' of its own
ClientSortAndOffset ==
    /\ IsRecordsRequest
    /\ InitialParams(request.args, None).sort # None
    /\ InitialParams(request.args, None).offset # None

\* C26: the query parameters 'sort' and 'offset' have no influence.  The
\* cache key is the key of (base id, table id, filter, cap); every page
\* request is determined by the filter, the cap, the table and what the
\* upstream has answered so far: the first page carries no cursor, a later
\* page the cursor of the response before it, each the request's filter and
\* the table's sort directive; and a hit answers whatever entry the cache
\* held under that key.
C26_SortAndOffsetIgnored ==
    (IsRecordsRequest /\ lookup.done) =>
        LET a == request.args
            v == validate_airtable_params(a.baseId, a.tableId, a.maxRecords,
                                          a.filterByFormula, profile)
            cap == Value(v.validated_params).max_records
        IN /\ lookup.key = md5(Value(a.baseId) \o ":" \o Value(a.tableId) \o ":"
                               \o OrEmpty(a.filterByFormula) \o ":"
                               \o MaxRecordsText(cap))
           /\ PageRequested =>
                /\ Value(page_params).offset
                      = (IF upstreamCalls = 1 THEN None ELSE offset)
                /\ Value(page_params).filterByFormula
                      = (IF Truthy(a.filterByFormula) THEN a.filterByFormula ELSE None)
                /\ <<Value(page_params).sort_field, Value(page_params).sort_direction>>
                      = TableSort(Value(a.tableId))
                /\ Value(page_params).maxRecords
                      = (IF cap = None THEN None
                         ELSE Some(IF Value(cap) - Len(all_records) < 100
                                   THEN Value(cap) - Len(all_records) ELSE 100))
                /\ DOMAIN Value(page_params) =
                      {"offset", "maxRecords", "filterByFormula", "sort_field",
                       "sort_direction"}
           /\ CacheHit =>
                /\ lookup.key \in DOMAIN cacheBefore.cache
                /\ response = Some([status |-> 200,
                                    body |-> cacheBefore.cache[lookup.key]])

\* the second page is requested for a request with a 'sort' and an 'offset'
\* of its own: it carries the upstream's cursor and the table's sort field
C26_Witness ==
    /\ ClientSortAndOffset /\ PageRequested /\ upstreamCalls = 2
    /\ Value(page_params).offset # request.args.offset
    /\ Value(page_params).sort_field # request.args.sort
    /\ Value(page_params).sort_field # None

=============================================================================
